---- MODULE Spec2Model ----
(***************************************************************************)
(* A model of the mapping-inference pipeline of src/app.py:                *)
(*   - call_databricks_llm      (the retrying model client),               *)
(*   - filter_data_dictionary_by_tables (the table filter),                *)
(*   - parse_mapping_result_to_structured_data (the reply parser),         *)
(*   - export_mapping_to_excel with create_excel_mapping_report (the       *)
(*     export route and the renderer),                                     *)
(*   - generate_mapping (the pipeline route, run by two requests at once). *)
(* Every component is a small state machine; Spec is the client, the       *)
(* other components have their own specifications further down.            *)
(***************************************************************************)
EXTENDS Integers, Sequences, FiniteSets, TLC

VARIABLES
    DATABRICKS_TOKEN,   \* process-wide credential (app.py:26 / app.py:30)
    cpc,                \* position of the caller in call_databricks_llm
    endpoint_key,       \* argument of the running call
    attempt,            \* loop counter of `for attempt in range(max_retries)`
    posts,              \* number of requests.post calls issued by this call
    responses,          \* what the endpoint answered to each POST of this call
    sleeps,             \* durations handed to time.sleep by this call, in order
    result,             \* the value returned by the call
    exhaustedErrors,    \* history: errors returned by calls that spent the budget
    fpc,                \* position of the caller in filter_data_dictionary_by_tables
    data_dict,          \* its argument: the parsed data dictionary
    table_names,        \* its argument: the requested table names, a list
    filtered_data_dict, \* the value it returned
    ppc,                \* position in parse_mapping_result_to_structured_data
    mapping_result,     \* its argument: what call_databricks_llm returned
    content,            \* the text taken out of the reply's envelope
    lines,              \* the lines of content the loop has still to read
    current_field,      \* the record being filled, a dict
    field_mappings,     \* the records emitted so far
    parsed_mapping,     \* the value it returned
    xpc,                \* position in export_mapping_to_excel
    output_layout,      \* the request's layout: a list of dicts
    report_table_names, \* the request's table_names, a list
    rpc,                \* position in create_excel_mapping_report
    row_idx,            \* rows written so far by the running loop
    mapping_ws,         \* the rows of the "Field Mappings" sheet
    excel_buffer,       \* what create_excel_mapping_report returned
    export_response,    \* what export_mapping_to_excel answered
    uploads,            \* the files of app.config['UPLOAD_FOLDER'], by name
    request,            \* per generate_mapping run: the form and the file sent
    frame,              \* per run: the local variables of generate_mapping
    run_pc,             \* per run: its position in generate_mapping
    run_response        \* per run: what generate_mapping answered

clientVars == <<DATABRICKS_TOKEN, cpc, endpoint_key, attempt, posts, responses,
                sleeps, result, exhaustedErrors>>

filterVars == <<fpc, data_dict, table_names, filtered_data_dict>>

parserVars == <<ppc, mapping_result, content, lines, current_field, field_mappings,
                parsed_mapping>>

exportVars == <<xpc, output_layout, report_table_names, rpc, row_idx, mapping_ws,
                excel_buffer, export_response>>

pipelineVars == <<uploads, request, frame, run_pc, run_response>>

vars == <<clientVars, filterVars, parserVars, exportVars, pipelineVars>>

(***************************************************************************)
(* Configuration                                                           *)
(***************************************************************************)
max_retries == 3

PLACEHOLDER_TOKEN == "YOUR_DATABRICKS_TOKEN_HERE"

\* os.getenv("DATABRICKS_TOKEN") is None when the variable is not set.
NoneToken == "<None>"

Tokens == {NoneToken, PLACEHOLDER_TOKEN, "dapi-token"}

DATABRICKS_ENDPOINTS == {"claude-sonnet-4", "llama-3-70b"}

EndpointKeys == DATABRICKS_ENDPOINTS \cup {"no-such-model"}

(***************************************************************************)
(* What one requests.post can do: answer with an HTTP status (and a body   *)
(* that response.json() can or cannot decode), or raise.                   *)
(***************************************************************************)
Http(status, decodable, body) ==
    [exc |-> "", status |-> status, decodable |-> decodable, body |-> body]

Raises(exc) ==
    [exc |-> exc, status |-> 0, decodable |-> FALSE, body |-> ""]

Bodies == {"reply-1", "reply-2"}

Statuses == {401, 404, 429, 500, 204}

\* ConnectTimeout, ReadTimeout, ConnectionError are the classes the loop
\* names; SSLError is a subclass of ConnectionError; TooManyRedirects is a
\* RequestException that is none of them.
Exceptions == {"ConnectTimeout", "ReadTimeout", "ConnectionError", "SSLError",
               "TooManyRedirects"}

Responses ==
    {Http(200, TRUE, b) : b \in Bodies}
        \cup {Http(200, FALSE, "")}
        \cup {Http(s, TRUE, "") : s \in Statuses}
        \cup {Raises(e) : e \in Exceptions}

\* The class hierarchy of requests.exceptions, as far as the handlers see it.
IsInstance(exc, cls) ==
    \/ exc = cls
    \/ cls = "ConnectionError" /\ exc \in {"ConnectTimeout", "SSLError"}
    \/ cls = "Exception"

(***************************************************************************)
(* Return values.  Every error is the dictionary {"error": message}; the   *)
(* message is kept as an identifier, with the status it embeds.            *)
(***************************************************************************)
NoResult == [kind |-> "none", error |-> "", status |-> 0, body |-> ""]

Payload(r) == [kind |-> "payload", error |-> "", status |-> 0, body |-> r.body]

Error(msg) == [kind |-> "error", error |-> msg, status |-> 0, body |-> ""]

ApiCallFailed(r) ==
    [kind |-> "error", error |-> "API call failed with status", status |-> r.status,
     body |-> r.body]

\* An exception that leaves the function.
Raised(exc) == [kind |-> "raised", error |-> exc, status |-> 0, body |-> ""]

TokenNotConfigured == "Databricks token not configured"
AuthenticationFailed == "Authentication failed"
EndpointNotFound == "Endpoint not found"
RateLimitExceeded == "Rate limit exceeded"
ConnectionTimeout == "Connection timeout"
ReadTimeoutError == "Read timeout"
ConnectionFailed == "Connection error"
MaxRetriesExceeded == "Max retries exceeded"
UnexpectedError == "Unexpected error calling LLM"

(***************************************************************************)
(* call_databricks_llm                                                     *)
(***************************************************************************)
\* `if DATABRICKS_TOKEN == 'YOUR_DATABRICKS_TOKEN_HERE'`
TokenNotSet(token) == token = PLACEHOLDER_TOKEN

\* A retry test that is off by one: the last attempt sleeps and falls out of the loop.
ShouldRetry_OffByOne(a) == a < max_retries

\* `if attempt < max_retries - 1`
ShouldRetry(a) == a < max_retries - 1

\* A backoff that doubles the counter instead of raising 2 to it.
RateLimitWait_Linear(a) == 2 * a

\* `wait_time = 2 ** attempt`
RateLimitWait(a) == 2 ^ a

\* `time.sleep(2)` of the three transport handlers
TransportWait == 2

\* What one pass through the loop body ends in: a return, a `continue`
\* after a sleep, or an exception that leaves the inner try.
Return(v) == [how |-> "return", sleep |-> 0, value |-> v, exc |-> ""]

Continue(wait) == [how |-> "continue", sleep |-> wait, value |-> NoResult, exc |-> ""]

Throw(exc) == [how |-> "raise", sleep |-> 0, value |-> NoResult, exc |-> exc]

\* A status chain that also retries server errors (5xx) like a 429.
StatusBranch_Retry5xx(r, a) ==
    CASE r.status = 200 ->
            IF r.decodable THEN Return(Payload(r)) ELSE Throw("JSONDecodeError")
      [] r.status = 401 -> Return(Error(AuthenticationFailed))
      [] r.status = 404 -> Return(Error(EndpointNotFound))
      [] r.status = 429 \/ r.status >= 500 ->
            IF a < max_retries - 1 THEN Continue(2 ^ a)
            ELSE Return(Error(RateLimitExceeded))
      [] OTHER -> Return(ApiCallFailed(r))

\* The if/elif chain on response.status_code.
StatusBranch(r, a) ==
    CASE r.status = 200 ->
            IF r.decodable THEN Return(Payload(r)) ELSE Throw("JSONDecodeError")
      [] r.status = 401 -> Return(Error(AuthenticationFailed))
      [] r.status = 404 -> Return(Error(EndpointNotFound))
      [] r.status = 429 ->
            IF ShouldRetry(a) THEN Continue(RateLimitWait(a))
            ELSE Return(Error(RateLimitExceeded))
      [] OTHER -> Return(ApiCallFailed(r))

\* The body of the inner try: the POST, then the status chain.
TryBody(r, a) == IF r.exc = "" THEN StatusBranch(r, a) ELSE Throw(r.exc)

\* The except clauses with ConnectionError first: it shadows ConnectTimeout.
InnerExcept_Reordered(exc, a) ==
    CASE IsInstance(exc, "ConnectionError") ->
            IF a < max_retries - 1 THEN Continue(2)
            ELSE Return(Error(ConnectionFailed))
      [] IsInstance(exc, "ConnectTimeout") ->
            IF a < max_retries - 1 THEN Continue(2)
            ELSE Return(Error(ConnectionTimeout))
      [] IsInstance(exc, "ReadTimeout") ->
            IF a < max_retries - 1 THEN Continue(2)
            ELSE Return(Error(ReadTimeoutError))
      [] OTHER -> Throw(exc)

\* The three except clauses of the inner try, in their order.
InnerExcept(exc, a) ==
    CASE IsInstance(exc, "ConnectTimeout") ->
            IF ShouldRetry(a) THEN Continue(TransportWait)
            ELSE Return(Error(ConnectionTimeout))
      [] IsInstance(exc, "ReadTimeout") ->
            IF ShouldRetry(a) THEN Continue(TransportWait)
            ELSE Return(Error(ReadTimeoutError))
      [] IsInstance(exc, "ConnectionError") ->
            IF ShouldRetry(a) THEN Continue(TransportWait)
            ELSE Return(Error(ConnectionFailed))
      [] OTHER -> Throw(exc)

\* An outer handler that names requests' exceptions only.
OuterExcept_RequestsOnly(exc) ==
    IF exc \in Exceptions \cup {"JSONDecodeError"} THEN Error(UnexpectedError)
    ELSE Raised(exc)

\* `except Exception as e` around the whole function.
OuterExcept(exc) ==
    IF IsInstance(exc, "Exception") THEN Error(UnexpectedError) ELSE Raised(exc)

\* One iteration of the loop, the handlers applied.
AttemptOutcome(r, a) ==
    LET body == TryBody(r, a)
        inner == IF body.how = "raise" THEN InnerExcept(body.exc, a) ELSE body
    IN  IF inner.how = "raise" THEN Return(OuterExcept(inner.exc)) ELSE inner

\* The classes of failure the loop retries.
Retryable(r) ==
    \/ r.exc = "" /\ r.status = 429
    \/ r.exc \in {"ConnectTimeout", "ReadTimeout", "ConnectionError", "SSLError"}

AllRetryable(rs) == \A i \in 1..Len(rs) : Retryable(rs[i])

\* Lines 100-124: the endpoint lookup, the token check, the loop entry.
CallStart ==
    /\ cpc = "idle"
    /\ \E key \in EndpointKeys :
        /\ endpoint_key' = key
        /\ attempt' = 0
        /\ posts' = 0
        /\ responses' = <<>>
        /\ sleeps' = <<>>
        /\ IF key \notin DATABRICKS_ENDPOINTS
           THEN cpc' = "done" /\ result' = OuterExcept("KeyError")
           ELSE IF TokenNotSet(DATABRICKS_TOKEN)
           THEN cpc' = "done" /\ result' = Error(TokenNotConfigured)
           ELSE IF 0 < max_retries
           THEN cpc' = "attempting" /\ result' = NoResult
           ELSE cpc' = "done" /\ result' = Error(MaxRetriesExceeded)
    /\ UNCHANGED <<DATABRICKS_TOKEN, exhaustedErrors, filterVars, parserVars, exportVars, pipelineVars>>

\* Lines 125-176: one pass through the loop, its sleep included.
Attempt ==
    /\ cpc = "attempting"
    /\ \E r \in Responses :
        LET o == AttemptOutcome(r, attempt) IN
        /\ posts' = posts + 1
        /\ responses' = Append(responses, r)
        /\ IF o.how = "continue"
           THEN /\ sleeps' = Append(sleeps, o.sleep)
                /\ attempt' = attempt + 1
                /\ IF attempt + 1 < max_retries
                   THEN cpc' = "attempting" /\ result' = NoResult
                   ELSE cpc' = "done" /\ result' = Error(MaxRetriesExceeded)
           ELSE /\ sleeps' = sleeps
                /\ attempt' = attempt
                /\ cpc' = "done"
                /\ result' = o.value
    /\ exhaustedErrors' =
          IF cpc' = "done" /\ posts' = max_retries /\ AllRetryable(responses')
          THEN exhaustedErrors \cup {result'.error}
          ELSE exhaustedErrors
    /\ UNCHANGED <<DATABRICKS_TOKEN, endpoint_key, filterVars, parserVars, exportVars, pipelineVars>>

\* The caller takes the returned value; the next call starts afresh.
CallReturn ==
    /\ cpc = "done"
    /\ cpc' = "idle"
    /\ result' = NoResult
    /\ attempt' = 0
    /\ posts' = 0
    /\ responses' = <<>>
    /\ sleeps' = <<>>
    /\ UNCHANGED <<DATABRICKS_TOKEN, endpoint_key, exhaustedErrors, filterVars, parserVars, exportVars, pipelineVars>>

ClientInit ==
    /\ DATABRICKS_TOKEN \in Tokens
    /\ cpc = "idle"
    /\ endpoint_key = "claude-sonnet-4"
    /\ attempt = 0
    /\ posts = 0
    /\ responses = <<>>
    /\ sleeps = <<>>
    /\ result = NoResult
    /\ exhaustedErrors = {}


ClientQuiet ==
    /\ DATABRICKS_TOKEN = PLACEHOLDER_TOKEN
    /\ cpc = "off"
    /\ endpoint_key = "claude-sonnet-4"
    /\ attempt = 0
    /\ posts = 0
    /\ responses = <<>>
    /\ sleeps = <<>>
    /\ result = NoResult
    /\ exhaustedErrors = {}

(***************************************************************************)
(* Text.  A string is a sequence of characters; "\n" is the line break.    *)
(***************************************************************************)
MaxEntries == 2
MaxItems == 2
MaxLines == 2

SeqsUpTo(S, n) == UNION {[1..k -> S] : k \in 0..n}

\* str.lower() on one character.
LowerChar(c) ==
    CASE c = "M" -> "m"
      [] c = "B" -> "b"
      [] c = "X" -> "x"
      [] c = "Member_ID" -> "member_id"
      [] c = "Members" -> "members"
      [] OTHER -> c

\* str.lower()
Lower(s) == [i \in 1..Len(s) |-> LowerChar(s[i])]

\* `sub in s` on strings
Contains(s, sub) ==
    \E i \in 0..(Len(s) - Len(sub)) : SubSeq(s, i + 1, i + Len(sub)) = sub

\* str.split('\n'): s[from..] cut at every line break (always at least one line).
RECURSIVE SplitFrom(_, _, _)
SplitFrom(s, i, cur) ==
    IF i > Len(s) THEN <<cur>>
    ELSE IF s[i] = "\n" THEN <<cur>> \o SplitFrom(s, i + 1, <<>>)
    ELSE SplitFrom(s, i + 1, Append(cur, s[i]))

Split(s) == SplitFrom(s, 1, <<>>)

\* '\n'.join(lines)
RECURSIVE Join(_)
Join(ls) ==
    IF Len(ls) = 0 THEN <<>>
    ELSE IF Len(ls) = 1 THEN ls[1]
    ELSE ls[1] \o <<"\n">> \o Join(Tail(ls))

(***************************************************************************)
(* filter_data_dictionary_by_tables                                        *)
(***************************************************************************)
\* A cell of a dictionary row: a str, or another value (a number, NaN) whose
\* printed form is s.
StrValue(s) == [isstr |-> TRUE, s |-> s]

OtherValue(s) == [isstr |-> FALSE, s |-> s]

\* The two shapes the parsers hand over: a list of rows (each row the
\* values of its items, in item order) or a dict with one text under a key.
ListDoc(entries) == [type |-> "list", key |-> "", text |-> <<>>, entries |-> entries]

DictDoc(key, text) == [type |-> "dict", key |-> key, text |-> text, entries |-> <<>>]

\* A test that lowers the cell only: `table_name in value.lower()`.
AnyTableIn_NameAsTyped(names, text) ==
    \E n \in 1..Len(names) : Contains(Lower(text), names[n])

\* `any(table_name.lower() in value.lower() for table_name in table_names)`
AnyTableIn(names, text) ==
    \E n \in 1..Len(names) : Contains(Lower(text), Lower(names[n]))

\* The inner loop over entry.items(), from item i on: what it appends.
RECURSIVE ScanItems(_, _, _)
ScanItems(entry, i, names) ==
    IF i > Len(entry) THEN <<>>
    ELSE IF entry[i].isstr /\ AnyTableIn(names, entry[i].s) THEN <<entry>>
    ELSE ScanItems(entry, i + 1, names)

\* The outer loop over the rows.
RECURSIVE FilterEntries(_, _)
FilterEntries(entries, names) ==
    IF Len(entries) = 0 THEN <<>>
    ELSE ScanItems(Head(entries), 1, names) \o FilterEntries(Tail(entries), names)

\* The loop over the lines of the text.
RECURSIVE FilterLines(_, _)
FilterLines(ls, names) ==
    IF Len(ls) = 0 THEN <<>>
    ELSE (IF AnyTableIn(names, Head(ls)) THEN <<Head(ls)>> ELSE <<>>)
            \o FilterLines(Tail(ls), names)

\* A result that keeps the key of its input.
FilteredKey_Same == "pdf_content"

\* The key of the dict returned for a text dictionary.
FilteredKey == "filtered_pdf_content"

filter_data_dictionary_by_tables(d, names) ==
    IF d.type = "list" THEN ListDoc(FilterEntries(d.entries, names))
    ELSE IF d.type = "dict" /\ d.key = "pdf_content"
    THEN DictDoc(FilteredKey, Join(FilterLines(Split(d.text), names)))
    ELSE d

\* The inputs: cells, rows, texts and name lists.
SampleValues ==
    {StrValue(<<"x", "M", "b">>), StrValue(<<"m", "x", "b">>), OtherValue(<<"m", "b">>)}

SampleLines == {<<"x", "M", "b">>, <<"m", "x", "b">>, <<>>}

\* table_names after the route's split(',') and strip: no empty name.
SampleTableNames == {<< <<"m", "b">> >>, << <<"M", "B">> >>, << <<"b", "b">>, <<"m", "B">> >>}

Entries == SeqsUpTo(SampleValues, MaxItems)

Docs ==
    {ListDoc(es) : es \in SeqsUpTo(Entries, MaxEntries)}
        \cup {DictDoc("pdf_content", Join(ls)) : ls \in SeqsUpTo(SampleLines, MaxLines)}

NoDoc == DictDoc("", <<>>)

FilterCall ==
    /\ fpc = "idle"
    /\ filtered_data_dict' = filter_data_dictionary_by_tables(data_dict, table_names)
    /\ fpc' = "done"
    /\ UNCHANGED <<data_dict, table_names, clientVars, parserVars, exportVars, pipelineVars>>

FilterInit ==
    /\ fpc = "idle"
    /\ data_dict \in Docs
    /\ table_names \in SampleTableNames
    /\ filtered_data_dict = NoDoc

FilterQuiet ==
    /\ fpc = "off"
    /\ data_dict = NoDoc
    /\ table_names = <<>>
    /\ filtered_data_dict = NoDoc

(***************************************************************************)
(* parse_mapping_result_to_structured_data                                 *)
(*                                                                         *)
(* A reply text is a sequence of tokens: a key with its colon              *)
(* ("TARGET_FIELD:"), the separator "---", a blank " ", the line break     *)
(* "\n" and words.                                                         *)
(***************************************************************************)
MaxReplyLines == 3

\* A reply: a dict (with or without the keys the parser probes, each in one
\* of the states a JSON document can have it in), a string, or another
\* JSON value.  text is the content string of the reply, where it has one.
Reply(type, choices, predictions, error, text) ==
    [type |-> type, choices |-> choices, predictions |-> predictions,
     error |-> error, text |-> text]

\* mapping_result['choices']: absent, [], or a list whose first element is
\*   {}                              "no_message"
\*   {"message": null}               "message_null"
\*   {"message": {}}                 "no_content"
\*   {"message": {"content": null}}  "content_null"
\*   {"message": {"content": text}}  "content"
ChoicesStates ==
    {"absent", "empty", "no_message", "message_null", "no_content", "content_null",
     "content"}

\* mapping_result['predictions']: absent, [], or a list whose first element is
\*   {}                                   "no_candidates"
\*   {"candidates": []}                   "candidates_empty"
\*   {"candidates": [{}]}                 "no_content"
\*   {"candidates": [{"content": text}]}  "content"
PredictionsStates ==
    {"absent", "empty", "no_candidates", "candidates_empty", "no_content", "content"}

\* What the envelope probing ends in.
Text(t) == [how |-> "text", text |-> t, exc |-> "", error |-> ""]

NoneContent == [how |-> "none", text |-> <<>>, exc |-> "", error |-> ""]

ExtractRaise(exc) == [how |-> "raise", text |-> <<>>, exc |-> exc, error |-> ""]

UpstreamError(msg) == [how |-> "upstream", text |-> <<>>, exc |-> "", error |-> msg]

\* str(mapping_result) of a value that is no string: its repr, on one line.
Repr(reply) == IF reply.type = "dict" THEN <<"{...}">> ELSE <<"[...]">>

\* mapping_result['choices'][0].get('message', {}).get('content', '')
ChoicesContent(reply) ==
    CASE reply.choices = "no_message" -> Text(<<>>)
      [] reply.choices = "message_null" -> ExtractRaise("AttributeError")
      [] reply.choices = "no_content" -> Text(<<>>)
      [] reply.choices = "content_null" -> NoneContent
      [] OTHER -> Text(reply.text)

\* mapping_result['predictions'][0].get('candidates', [{}])[0].get('content', '')
PredictionsContent(reply) ==
    CASE reply.predictions = "no_candidates" -> Text(<<>>)
      [] reply.predictions = "candidates_empty" -> ExtractRaise("IndexError")
      [] reply.predictions = "no_content" -> Text(<<>>)
      [] OTHER -> Text(reply.text)

\* A chain without the `error` branch: an error object is stringified.
ExtractContent_NoErrorBranch(reply) ==
    IF reply.type = "dict"
    THEN IF reply.choices \notin {"absent", "empty"} THEN ChoicesContent(reply)
         ELSE IF reply.predictions \notin {"absent", "empty"} THEN PredictionsContent(reply)
         ELSE Text(Repr(reply))
    ELSE IF reply.type = "str" THEN Text(reply.text)
    ELSE Text(Repr(reply))

\* Lines 185-195: the if/elif chain that finds the content.
ExtractContent(reply) ==
    IF reply.type = "dict"
    THEN IF reply.choices \notin {"absent", "empty"} THEN ChoicesContent(reply)
         ELSE IF reply.predictions \notin {"absent", "empty"} THEN PredictionsContent(reply)
         ELSE IF reply.error # "" THEN UpstreamError(reply.error)
         ELSE Text(Repr(reply))
    ELSE IF reply.type = "str" THEN Text(reply.text)
    ELSE Text(Repr(reply))

\* str.strip(): the blanks at both ends removed.
RECURSIVE LStrip(_)
LStrip(s) == IF Len(s) > 0 /\ Head(s) = " " THEN LStrip(Tail(s)) ELSE s

RECURSIVE RStrip(_)
RStrip(s) ==
    IF Len(s) > 0 /\ s[Len(s)] = " " THEN RStrip(SubSeq(s, 1, Len(s) - 1)) ELSE s

Strip(s) == RStrip(LStrip(s))

\* line.replace(key, ''): every occurrence of the key removed.
RemoveAll(line, key) == SelectSeq(line, LAMBDA t : t # key)

\* The elif chain of the line loop, in its order: the key and the field it fills.
KeyTable ==
    << <<"TARGET_FIELD:", "target_field">>,
       <<"TARGET_TYPE:", "target_type">>,
       <<"TARGET_DESC:", "target_desc">>,
       <<"SOURCE_TABLE:", "source_table">>,
       <<"SOURCE_COLUMN:", "source_column">>,
       <<"TRANSFORMATION:", "transformation">>,
       <<"CONFIDENCE:", "confidence">>,
       <<"REASON:", "reason">> >>

\* line.startswith(key)
StartsWith(line, key) == Len(line) > 0 /\ line[1] = key

EmptyDict == [k \in {} |-> <<>>]

\* d[k] = v
SetItem(d, k, v) == [x \in DOMAIN d \cup {k} |-> IF x = k THEN v ELSE d[x]]

\* The branch of the chain a (stripped, non-separator) line takes.
RECURSIVE ApplyLine(_, _, _)
ApplyLine(cur, line, i) ==
    IF i > Len(KeyTable) THEN cur
    ELSE IF StartsWith(line, KeyTable[i][1])
    THEN SetItem(cur, KeyTable[i][2], Strip(RemoveAll(line, KeyTable[i][1])))
    ELSE ApplyLine(cur, line, i + 1)

\* `if current_field and 'target_field' in current_field`
Emittable(cur) == DOMAIN cur # {} /\ "target_field" \in DOMAIN cur

\* `if not line or line == '---'`
IsSeparator(line) == line = <<>> \/ line = <<"---">>

\* The values the function returns.
NoParse == [kind |-> "none", error |-> "", full_content |-> <<>>, field_mappings |-> <<>>]

ErrorValue(msg) ==
    [kind |-> "error", error |-> msg, full_content |-> <<>>, field_mappings |-> <<>>]

\* A result that returns the text as the loop saw it: the stripped lines.
ResultValue_Stripped(text, mappings) ==
    [kind |-> "result", error |-> "",
     full_content |-> Join([i \in 1..Len(Split(text)) |-> Strip(Split(text)[i])]),
     field_mappings |-> mappings]

\* Lines 234-237: {'full_content': content, 'field_mappings': field_mappings}
ResultValue(text, mappings) ==
    [kind |-> "result", error |-> "", full_content |-> text, field_mappings |-> mappings]

ParseErrorMessage == "Error parsing mapping result"

\* `except Exception as e` around the whole function.
ParseExcept(exc) == ErrorValue(ParseErrorMessage)

\* Lines 185-202: the content is found and split into lines.
ParseStart ==
    /\ ppc = "idle"
    /\ LET e == ExtractContent(mapping_result) IN
         CASE e.how = "upstream" ->
                /\ parsed_mapping' = ErrorValue(e.error)
                /\ ppc' = "done"
                /\ UNCHANGED <<content, lines>>
           [] e.how = "raise" ->
                /\ parsed_mapping' = ParseExcept(e.exc)
                /\ ppc' = "done"
                /\ UNCHANGED <<content, lines>>
           [] e.how = "none" ->
                \* content is None: content.split raises AttributeError
                /\ parsed_mapping' = ParseExcept("AttributeError")
                /\ ppc' = "done"
                /\ UNCHANGED <<content, lines>>
           [] OTHER ->
                /\ content' = e.text
                /\ lines' = Split(e.text)
                /\ ppc' = "lines"
                /\ UNCHANGED parsed_mapping
    /\ current_field' = EmptyDict
    /\ field_mappings' = <<>>
    /\ UNCHANGED <<mapping_result, clientVars, filterVars, exportVars, pipelineVars>>

\* Lines 204-228: one pass through the line loop.
ParseLine ==
    /\ ppc = "lines"
    /\ lines # <<>>
    /\ LET line == Strip(Head(lines)) IN
         IF IsSeparator(line)
         THEN IF Emittable(current_field)
              THEN /\ field_mappings' = Append(field_mappings, current_field)
                   /\ current_field' = EmptyDict
              ELSE UNCHANGED <<field_mappings, current_field>>
         ELSE /\ current_field' = ApplyLine(current_field, line, 1)
              /\ UNCHANGED field_mappings
    /\ lines' = Tail(lines)
    /\ UNCHANGED <<ppc, mapping_result, content, parsed_mapping, clientVars, filterVars, exportVars, pipelineVars>>

\* Lines 230-237: the last record is flushed and the result returned.
ParseEnd ==
    /\ ppc = "lines"
    /\ lines = <<>>
    /\ field_mappings' =
          IF Emittable(current_field) THEN Append(field_mappings, current_field)
          ELSE field_mappings
    /\ parsed_mapping' = ResultValue(content, field_mappings')
    /\ ppc' = "done"
    /\ UNCHANGED <<mapping_result, content, lines, current_field, clientVars, filterVars, exportVars, pipelineVars>>

\* The inputs: reply lines, reply texts and replies.
SampleReplyLines ==
    { <<"TARGET_FIELD:", " ", "member_id">>,
      <<" ", "TARGET_FIELD:", "claim_id", " ">>,
      <<"SOURCE_TABLE:", " ", "members">>,
      <<"CONFIDENCE:", " ", "High">>,
      <<"CONFIDENCE:", " ", "Very", " ", "High">>,
      <<"REASON:", " ", "same", " ", "name">>,
      <<"REASON:", " ", "see", " ", "REASON:">>,
      <<"NOTE:", " ", "members">>,
      <<"---">>,
      <<>> }

ReplyTexts == {Join(ls) : ls \in SeqsUpTo(SampleReplyLines, MaxReplyLines)}

UpstreamMessages == {RateLimitExceeded, UnexpectedError}

Replies ==
    {Reply("dict", "content", "absent", "", t) : t \in ReplyTexts}
        \cup {Reply("dict", "absent", "content", "", t) : t \in ReplyTexts}
        \cup {Reply("str", "absent", "absent", "", t) : t \in ReplyTexts}
        \cup {Reply("dict", c, p, e, <<>>) :
                c \in ChoicesStates, p \in PredictionsStates,
                e \in UpstreamMessages \cup {""}}
        \cup {Reply("other", "absent", "absent", "", <<>>)}

ParserInit ==
    /\ ppc = "idle"
    /\ mapping_result \in Replies
    /\ content = <<>>
    /\ lines = <<>>
    /\ current_field = EmptyDict
    /\ field_mappings = <<>>
    /\ parsed_mapping = NoParse

ParserQuiet ==
    /\ ppc = "off"
    /\ mapping_result = Reply("other", "absent", "absent", "", <<>>)
    /\ content = <<>>
    /\ lines = <<>>
    /\ current_field = EmptyDict
    /\ field_mappings = <<>>
    /\ parsed_mapping = NoParse

(***************************************************************************)
(* export_mapping_to_excel and create_excel_mapping_report                 *)
(*                                                                         *)
(* A cell is a string (a sequence of tokens), a row is its eight cells,    *)
(* the "Field Mappings" sheet is the sequence of its rows, headers first.  *)
(***************************************************************************)
MaxLayoutFields == 2

\* dict.get(k, default)
Get(d, k, default) == IF k \in DOMAIN d THEN d[k] ELSE default

\* Lines 289-298.
headers ==
    << <<"Target Field">>, <<"Target Data Type">>, <<"Target Description">>,
       <<"Source Table">>, <<"Source Column">>,
       <<"Transformation / Mapping Rules">>, <<"Confidence">>,
       <<"Reason (Why AI mapping the source field to target)">> >>

\* A row that puts the source column before the source table.
MappingRow_SourceSwapped(field_mapping) ==
    << Get(field_mapping, "target_field", <<"N/A">>),
       Get(field_mapping, "target_type", <<"VARCHAR(255)">>),
       Get(field_mapping, "target_desc", <<"No description">>),
       Get(field_mapping, "source_column", <<"TBD">>),
       Get(field_mapping, "source_table", <<"TBD">>),
       Get(field_mapping, "transformation", <<"Direct mapping">>),
       Get(field_mapping, "confidence", <<"Medium">>),
       Get(field_mapping, "reason", <<"AI analysis required">>) >>

\* Lines 313-322: the row of one parsed record.
MappingRow(field_mapping) ==
    << Get(field_mapping, "target_field", <<"N/A">>),
       Get(field_mapping, "target_type", <<"VARCHAR(255)">>),
       Get(field_mapping, "target_desc", <<"No description">>),
       Get(field_mapping, "source_table", <<"TBD">>),
       Get(field_mapping, "source_column", <<"TBD">>),
       Get(field_mapping, "transformation", <<"Direct mapping">>),
       Get(field_mapping, "confidence", <<"Medium">>),
       Get(field_mapping, "reason", <<"AI analysis required">>) >>

\* Line 339.
ManualReviewReason ==
    <<"AI analysis required - please review the full content for detailed mapping logic">>

\* Line 351.
IdentifiedReason(target_field) ==
    <<"Field identified in AI analysis. Common healthcare field mapping for ">>
        \o target_field \o <<". Review full AI content for complete logic.">>

\* Lines 344-347: the first requested table the content names, else "TBD".
RECURSIVE FirstTableIn(_, _, _)
FirstTableIn(names, ai_content, i) ==
    IF i > Len(names) THEN <<"TBD">>
    ELSE IF Contains(Lower(ai_content), Lower(names[i])) THEN names[i]
    ELSE FirstTableIn(names, ai_content, i + 1)

\* any(keyword in ai_content.lower() for keyword in keywords)
AnyKeyword(ai_content, keywords) ==
    \E keyword \in keywords : Contains(Lower(ai_content), keyword)

\* Lines 354-359.
Transformation(ai_content) ==
    IF AnyKeyword(ai_content, {<<"trim">>, <<"cast">>, <<"convert">>, <<"case">>})
    THEN <<"Data transformation required (see AI analysis)">>
    ELSE IF AnyKeyword(ai_content, {<<"join">>, <<"lookup">>})
    THEN <<"Multi-table join required">>
    ELSE <<"Direct field mapping">>

\* A row that looks for the field name as typed: `target_field in ai_content`.
LayoutRow_NameAsTyped(field, idx, ai_content, names) ==
    LET target_field == Get(field, "Field", <<"field_", ToString(idx + 1)>>)
        found == Contains(ai_content, target_field)
    IN  << target_field,
           Get(field, "Type", <<"VARCHAR(255)">>),
           Get(field, "Description", <<"Field description">>),
           IF found THEN FirstTableIn(names, ai_content, 1) ELSE <<"TBD">>,
           IF found THEN target_field ELSE <<"TBD">>,
           IF found THEN Transformation(ai_content) ELSE <<"Direct mapping">>,
           IF found THEN <<"High">> ELSE <<"Medium">>,
           IF found THEN IdentifiedReason(target_field) ELSE ManualReviewReason >>

\* Lines 330-371: the row of one field of the layout, in the fallback.
LayoutRow(field, idx, ai_content, names) ==
    LET target_field == Get(field, "Field", <<"field_", ToString(idx + 1)>>)
        found == Contains(Lower(ai_content), Lower(target_field))
    IN  << target_field,
           Get(field, "Type", <<"VARCHAR(255)">>),
           Get(field, "Description", <<"Field description">>),
           IF found THEN FirstTableIn(names, ai_content, 1) ELSE <<"TBD">>,
           IF found THEN target_field ELSE <<"TBD">>,
           IF found THEN Transformation(ai_content) ELSE <<"Direct mapping">>,
           IF found
             THEN IF AnyKeyword(ai_content,
                                {Lower(target_field), <<"map">>, <<"transform">>})
                  THEN <<"High">> ELSE <<"Medium">>
             ELSE <<"Medium">>,
           IF found THEN IdentifiedReason(target_field) ELSE ManualReviewReason >>

\* `if not mapping_result` (line 637): the empty string.
Falsy(reply) == reply.type = "str" /\ reply.text = <<>>

NoResponse == [status |-> 0, error |-> "", file |-> <<>>]

\* jsonify({'error': msg}), status
ErrorResponse(status, msg) == [status |-> status, error |-> msg, file |-> <<>>]

\* send_file(excel_buffer, ...)
FileResponse(sheet) == [status |-> 200, error |-> "", file |-> sheet]

NoBuffer == [kind |-> "none", sheet |-> <<>>]

\* Lines 423-425: the saved workbook.
Workbook(sheet) == [kind |-> "workbook", sheet |-> sheet]

\* Lines 626-641: the request is read and the parser called.
ExportRequest ==
    /\ xpc = "request"
    /\ IF Falsy(mapping_result)
       THEN /\ export_response' = ErrorResponse(400, "No mapping result provided")
            /\ xpc' = "done"
            /\ UNCHANGED ppc
       ELSE /\ ppc' = "idle"
            /\ xpc' = "parsing"
            /\ UNCHANGED export_response
    /\ UNCHANGED <<mapping_result, content, lines, current_field, field_mappings,
                   parsed_mapping, output_layout, report_table_names, rpc, row_idx,
                   mapping_ws, excel_buffer, clientVars, filterVars, pipelineVars>>

\* Lines 643-652: a parse error is answered, a result goes to the renderer.
ExportParsed ==
    /\ xpc = "parsing"
    /\ ppc = "done"
    /\ IF parsed_mapping.kind = "error"
       THEN /\ export_response' = ErrorResponse(400, parsed_mapping.error)
            /\ xpc' = "done"
            /\ UNCHANGED rpc
       ELSE /\ rpc' = "start"
            /\ xpc' = "rendering"
            /\ UNCHANGED export_response
    /\ UNCHANGED <<output_layout, report_table_names, row_idx, mapping_ws,
                   excel_buffer, clientVars, filterVars, parserVars, pipelineVars>>

\* Lines 244-310 and 325: the sheet gets its headers, the branch is chosen.
RenderStart ==
    /\ rpc = "start"
    /\ mapping_ws' = <<headers>>
    /\ row_idx' = 0
    /\ rpc' = IF parsed_mapping.field_mappings # <<>> THEN "mappings"
              ELSE IF output_layout # <<>> THEN "layout"
              ELSE "save"
    /\ UNCHANGED <<xpc, output_layout, report_table_names, excel_buffer,
                   export_response, clientVars, filterVars, parserVars, pipelineVars>>

\* Lines 312-323: one pass of the loop over the parsed records.
RenderMappingRow ==
    /\ rpc = "mappings"
    /\ mapping_ws' = Append(mapping_ws, MappingRow(parsed_mapping.field_mappings[row_idx + 1]))
    /\ row_idx' = row_idx + 1
    /\ rpc' = IF row_idx + 1 = Len(parsed_mapping.field_mappings) THEN "save" ELSE "mappings"
    /\ UNCHANGED <<xpc, output_layout, report_table_names, excel_buffer,
                   export_response, clientVars, filterVars, parserVars, pipelineVars>>

\* Lines 327-373: one pass of the loop over the layout's fields.
RenderLayoutRow ==
    /\ rpc = "layout"
    /\ mapping_ws' = Append(mapping_ws,
                            LayoutRow(output_layout[row_idx + 1], row_idx,
                                      parsed_mapping.full_content, report_table_names))
    /\ row_idx' = row_idx + 1
    /\ rpc' = IF row_idx + 1 = Len(output_layout) THEN "save" ELSE "layout"
    /\ UNCHANGED <<xpc, output_layout, report_table_names, excel_buffer,
                   export_response, clientVars, filterVars, parserVars, pipelineVars>>

\* Lines 375-425: the rows are styled and the workbook saved to the buffer.
RenderSave ==
    /\ rpc = "save"
    /\ excel_buffer' = Workbook(mapping_ws)
    /\ rpc' = "done"
    /\ UNCHANGED <<xpc, output_layout, report_table_names, row_idx, mapping_ws,
                   export_response, clientVars, filterVars, parserVars, pipelineVars>>

\* Lines 654-667: the file is sent.
ExportRespond ==
    /\ xpc = "rendering"
    /\ rpc = "done"
    /\ export_response' =
          IF excel_buffer.kind = "none"
          THEN ErrorResponse(500, "Failed to create Excel file")
          ELSE FileResponse(excel_buffer.sheet)
    /\ xpc' = "done"
    /\ UNCHANGED <<output_layout, report_table_names, rpc, row_idx, mapping_ws,
                   excel_buffer, clientVars, filterVars, parserVars, pipelineVars>>

\* The inputs: the request's reply texts, layouts and table names.
SampleExportTexts ==
    { <<>>,
      <<"NOTE:", " ", "claims">>,
      <<"SOURCE_COLUMN:", " ", "member_id">>,
      <<"SOURCE_TABLE:", " ", "members", "\n", "SOURCE_COLUMN:", " ", "member_id",
        "\n", "TRANSFORMATION:", " ", "trim">>,
      <<"SOURCE_COLUMN:", " ", "claim_id", "\n", "TRANSFORMATION:", " ", "join">>,
      <<"TARGET_FIELD:", " ", "member_id">>,
      <<"TARGET_FIELD:", " ", "member_id", "\n", "SOURCE_TABLE:", " ", "members",
        "\n", "CONFIDENCE:", " ", "High", "\n", "---", "\n",
        "TARGET_FIELD:", " ", "claim_id", "\n", "TARGET_TYPE:">>,
      <<"TARGET_FIELD:", " ", "member_id", "\n", "TARGET_TYPE:", " ", "INT", "\n",
        "TARGET_DESC:", " ", "member", "\n", "SOURCE_TABLE:", " ", "members", "\n",
        "SOURCE_COLUMN:", " ", "id", "\n", "TRANSFORMATION:", " ", "trim", "\n",
        "CONFIDENCE:", " ", "Low", "\n", "REASON:", " ", "same", " ", "name">> }

ExportReplies ==
    {Reply("dict", "content", "absent", "", t) : t \in SampleExportTexts}
        \cup {Reply("str", "absent", "absent", "", t) : t \in SampleExportTexts}
        \cup {Reply("dict", "absent", "absent", UnexpectedError, <<>>)}

\* Rows of a layout: load_output_layout gives every column, a caller of
\* the export route gives what it likes.
SampleLayoutFields ==
    { [Field |-> <<"Member_ID">>, Type |-> <<"INT">>, Description |-> <<"member">>],
      SetItem(EmptyDict, "Field", <<"claim_id">>),
      EmptyDict }

SampleReportTables == {<< <<"members">> >>, << <<"claims">>, <<"Members">> >>}

ExportInit ==
    /\ xpc = "request"
    /\ output_layout \in SeqsUpTo(SampleLayoutFields, MaxLayoutFields)
    /\ report_table_names \in SampleReportTables
    /\ rpc = "off"
    /\ row_idx = 0
    /\ mapping_ws = <<>>
    /\ excel_buffer = NoBuffer
    /\ export_response = NoResponse
    /\ ppc = "off"
    /\ mapping_result \in ExportReplies
    /\ content = <<>>
    /\ lines = <<>>
    /\ current_field = EmptyDict
    /\ field_mappings = <<>>
    /\ parsed_mapping = NoParse

ExportQuiet ==
    /\ xpc = "off"
    /\ output_layout = <<>>
    /\ report_table_names = <<>>
    /\ rpc = "off"
    /\ row_idx = 0
    /\ mapping_ws = <<>>
    /\ excel_buffer = NoBuffer
    /\ export_response = NoResponse

(***************************************************************************)
(* generate_mapping, run by two requests at the same time.                 *)
(*                                                                         *)
(* The development server answers every request in a thread of its own.    *)
(* The locals of a run are its own; the upload folder is one directory.    *)
(* The endpoint is taken to answer a prompt with one reply, so that two    *)
(* outcomes differ only when the program made them differ.                 *)
(***************************************************************************)
Runs == {1, 2}

Filenames == {"dictionary.csv", "claims.csv"}

\* The state of a path of the folder that holds no file.
NoFile == [type |-> "missing", key |-> "", text |-> <<>>, entries |-> <<>>]

\* What the two uploads hold, as parse_csv_data_dictionary reads them.
UploadDocs ==
    { ListDoc(<< <<StrValue(<<"x", "M", "b">>)>> >>),
      ListDoc(<< <<StrValue(<<"m", "x", "b">>)>>,
                 <<StrValue(<<"x", "M", "b">>), OtherValue(<<"m", "b">>)>> >>) }

NoFrame ==
    [data_dictionary |-> NoDoc, filtered_data_dict |-> NoDoc,
     prompt |-> <<>>, llm_response |-> <<>>, parsed_mapping |-> <<>>]

\* Lines 570-575: the prompt embeds the layout, the filtered dictionary and
\* the table names (json.dumps of each).
Prompt(layout, filtered, names) == <<"prompt", layout, filtered, names>>

\* The endpoint's reply to a prompt.
ReplyTo(prompt) == <<"reply", prompt>>

\* parse_mapping_result_to_structured_data, as a function of the reply.
ParsedFrom(reply) == <<"parsed", reply>>

NoRunResponse == [status |-> 0, error |-> "", data |-> <<>>]

RunError(status, msg) == [status |-> status, error |-> msg, data |-> <<>>]

\* Lines 587-598: response_data.
RunOk(req, reply, parsed) ==
    [status |-> 200, error |-> "",
     data |-> <<req.layout, req.table_names, reply, parsed>>]

\* Lines 549-551: data_dict_file.save(os.path.join(UPLOAD_FOLDER, filename))
SaveUpload ==
    \E r \in Runs :
      /\ run_pc[r] = "save"
      /\ uploads' = [uploads EXCEPT ![request[r].filename] = request[r].data_dict_file]
      /\ run_pc' = [run_pc EXCEPT ![r] = "parse"]
      /\ UNCHANGED <<request, frame, run_response,
                     clientVars, filterVars, parserVars, exportVars>>

\* Lines 554-564: the file at file_path is read back; a file that is not
\* there makes parse_csv_data_dictionary return an error, answered with 400.
ParseDictionary ==
    \E r \in Runs :
      /\ run_pc[r] = "parse"
      /\ IF uploads[request[r].filename] = NoFile
         THEN /\ run_response' = [run_response EXCEPT ![r] = RunError(400, "Error parsing CSV")]
              /\ run_pc' = [run_pc EXCEPT ![r] = "done"]
              /\ UNCHANGED frame
         ELSE /\ frame' = [frame EXCEPT ![r].data_dictionary = uploads[request[r].filename]]
              /\ run_pc' = [run_pc EXCEPT ![r] = "filter"]
              /\ UNCHANGED run_response
      /\ UNCHANGED <<uploads, request, clientVars, filterVars, parserVars, exportVars>>

\* Line 567.
FilterDictionary ==
    \E r \in Runs :
      /\ run_pc[r] = "filter"
      /\ frame' = [frame EXCEPT ![r].filtered_data_dict =
                      filter_data_dictionary_by_tables(frame[r].data_dictionary,
                                                       request[r].table_names)]
      /\ run_pc' = [run_pc EXCEPT ![r] = "prompt"]
      /\ UNCHANGED <<uploads, request, run_response,
                     clientVars, filterVars, parserVars, exportVars>>

\* Lines 570-575.
BuildPrompt ==
    \E r \in Runs :
      /\ run_pc[r] = "prompt"
      /\ frame' = [frame EXCEPT ![r].prompt =
                      Prompt(request[r].layout, frame[r].filtered_data_dict,
                             request[r].table_names)]
      /\ run_pc' = [run_pc EXCEPT ![r] = "call"]
      /\ UNCHANGED <<uploads, request, run_response,
                     clientVars, filterVars, parserVars, exportVars>>

\* Line 578.
CallModel ==
    \E r \in Runs :
      /\ run_pc[r] = "call"
      /\ frame' = [frame EXCEPT ![r].llm_response = ReplyTo(frame[r].prompt)]
      /\ run_pc' = [run_pc EXCEPT ![r] = "parse_reply"]
      /\ UNCHANGED <<uploads, request, run_response,
                     clientVars, filterVars, parserVars, exportVars>>

\* Line 581.
ParseReply ==
    \E r \in Runs :
      /\ run_pc[r] = "parse_reply"
      /\ frame' = [frame EXCEPT ![r].parsed_mapping = ParsedFrom(frame[r].llm_response)]
      /\ run_pc' = [run_pc EXCEPT ![r] = "remove"]
      /\ UNCHANGED <<uploads, request, run_response,
                     clientVars, filterVars, parserVars, exportVars>>

\* Lines 584-601: os.remove(file_path) raises FileNotFoundError when the
\* file is gone, which the handler's `except Exception` answers with 500;
\* otherwise the file is deleted and the mapping answered.
RemoveUpload ==
    \E r \in Runs :
      /\ run_pc[r] = "remove"
      /\ IF uploads[request[r].filename] = NoFile
         THEN /\ run_response' = [run_response EXCEPT ![r] = RunError(500, "An error occurred: No such file or directory")]
              /\ UNCHANGED uploads
         ELSE /\ uploads' = [uploads EXCEPT ![request[r].filename] = NoFile]
              /\ run_response' = [run_response EXCEPT ![r] =
                                    RunOk(request[r], frame[r].llm_response,
                                          frame[r].parsed_mapping)]
      /\ run_pc' = [run_pc EXCEPT ![r] = "done"]
      /\ UNCHANGED <<request, frame, clientVars, filterVars, parserVars, exportVars>>

\* Two requests that passed the checks of lines 537-546, each with a
\* layout, table names and a CSV dictionary; the folder starts empty.
PipelineInit ==
    /\ uploads = [f \in Filenames |-> NoFile]
    /\ request \in [Runs -> [filename : Filenames, data_dict_file : UploadDocs,
                             table_names : {<< <<"m", "b">> >>},
                             layout : {"member"}]]
    /\ frame = [r \in Runs |-> NoFrame]
    /\ run_pc = [r \in Runs |-> "save"]
    /\ run_response = [r \in Runs |-> NoRunResponse]

PipelineQuiet ==
    /\ uploads = [f \in Filenames |-> NoFile]
    /\ request = [r \in Runs |-> [filename |-> "dictionary.csv", data_dict_file |-> NoDoc,
                                  table_names |-> <<>>, layout |-> "member"]]
    /\ frame = [r \in Runs |-> NoFrame]
    /\ run_pc = [r \in Runs |-> "off"]
    /\ run_response = [r \in Runs |-> NoRunResponse]

(***************************************************************************)
(* Properties of call_databricks_llm                                       *)
(***************************************************************************)
Is429(r) == r.exc = "" /\ r.status = 429

IsSuccess(r) == r.exc = "" /\ r.status = 200 /\ r.decodable

Last(seq) == seq[Len(seq)]

\* C1: after max_retries consecutive 429 answers the call has ended with the
\* rate-limit exhaustion error after exactly max_retries POSTs (no further
\* POST is ever issued, whatever the endpoint would answer); after fewer
\* than max_retries 429 answers followed by a decodable 200 it has returned
\* that response's payload.
C1_RetryBudget ==
    /\ (Len(responses) = max_retries /\ \A i \in 1..max_retries : Is429(responses[i]))
          => (cpc = "done" /\ posts = max_retries /\ result = Error(RateLimitExceeded))
    /\ \A k \in 0..(max_retries - 1) :
          ( /\ Len(responses) = k + 1
            /\ \A i \in 1..k : Is429(responses[i])
            /\ IsSuccess(responses[k + 1]) )
          => (cpc = "done" /\ posts = k + 1 /\ result = Payload(responses[k + 1]))

C1_Witness ==
    /\ cpc = "done"
    /\ Len(responses) = max_retries
    /\ \A i \in 1..max_retries : Is429(responses[i])
    /\ result.error = RateLimitExceeded

\* C2: a 401, a 404 or any other status outside 2xx that is not 429, on any
\* attempt, ends the call at once with the matching error: that POST is the
\* last one and no sleep follows it.
C2_TerminalStatus ==
    (Len(responses) > 0 /\ Last(responses).exc = ""
        /\ Last(responses).status \notin (200..299) \cup {429})
      => /\ cpc = "done"
         /\ posts = Len(responses)
         /\ Len(sleeps) = posts - 1
         /\ result = CASE Last(responses).status = 401 -> Error(AuthenticationFailed)
                       [] Last(responses).status = 404 -> Error(EndpointNotFound)
                       [] OTHER -> ApiCallFailed(Last(responses))

C2_Witness ==
    /\ cpc = "done"
    /\ Len(responses) = 2
    /\ Is429(responses[1])
    /\ responses[2].status = 401
    /\ result = Error(AuthenticationFailed)
    /\ posts = 2

\* C3 (as claimed): every call that spends the whole budget on retryable
\* failures returns the same error, whatever the class of the last failure.
C3_OneExhaustionError == Cardinality(exhaustedErrors) <= 1

\* The error the code returns when the last attempt of the budget fails.
ExhaustionErrorOf(r) ==
    CASE Is429(r) -> RateLimitExceeded
      [] r.exc = "ConnectTimeout" -> ConnectionTimeout
      [] r.exc = "ReadTimeout" -> ReadTimeoutError
      [] OTHER -> ConnectionFailed

\* C3 (amended): a call that spends the whole budget on retryable failures
\* returns an error decided by the class of its last failed attempt alone:
\* rate limit, connection timeout, read timeout or connection error.
C3_ErrorOfLastFailure ==
    (cpc = "done" /\ Len(responses) = max_retries /\ AllRetryable(responses))
      => result = Error(ExhaustionErrorOf(Last(responses)))

C3_Witness ==
    /\ cpc = "done"
    /\ Len(responses) = max_retries
    /\ Is429(responses[1])
    /\ Last(responses).exc = "ConnectTimeout"
    /\ result = Error(ConnectionTimeout)
    /\ RateLimitExceeded \in exhaustedErrors

\* C4: a call never issues more than max_retries POSTs, its counter counts
\* the retried failures, a finished call holds exactly one outcome (a
\* payload or an error value, never an exception), and every started call
\* finishes.
C4_BoundedCall ==
    /\ [](/\ posts <= max_retries
          /\ attempt = Len(sleeps)
          /\ (cpc = "attempting" => (attempt = posts /\ AllRetryable(responses)
                                        /\ result = NoResult))
          /\ (cpc = "done" => result.kind \in {"payload", "error"}))
    /\ ((cpc = "attempting") ~> (cpc = "done"))

C4_Witness ==
    /\ cpc = "done"
    /\ posts = max_retries
    /\ Last(responses) = Http(200, FALSE, "")
    /\ result = Error(UnexpectedError)

\* C5 (as claimed): with no token or the placeholder token configured, a
\* call issues no POST and returns a configuration error.
C5_CredentialCheckedFirst ==
    DATABRICKS_TOKEN \in {NoneToken, PLACEHOLDER_TOKEN}
      => /\ posts = 0
         /\ cpc = "done"
              => (result.kind = "error"
                    /\ result.error \in {TokenNotConfigured, UnexpectedError})

\* C6: the i-th sleep of a call follows the i-th POST, which failed in a
\* retryable way with counter value i-1, and lasts 2^(i-1) seconds after a
\* 429 and 2 seconds after a transport failure; a running call has slept
\* once per POST, and a finished call once less than it has POSTed: no
\* sleep follows its last attempt.
C6_Backoff ==
    /\ \A i \in 1..Len(sleeps) :
          /\ Retryable(responses[i])
          /\ sleeps[i] = IF Is429(responses[i]) THEN 2 ^ (i - 1) ELSE 2
    /\ cpc = "attempting" => (Len(sleeps) = posts /\ attempt = posts)
    /\ (cpc = "done" /\ posts > 0) => Len(sleeps) = posts - 1
    /\ posts = 0 => sleeps = <<>>

C6_Witness ==
    /\ cpc = "done"
    /\ Len(responses) = max_retries
    /\ Is429(responses[1])
    /\ responses[2].exc = "ReadTimeout"
    /\ Is429(responses[3])
    /\ sleeps = <<1, 2>>

(***************************************************************************)
(* Properties of filter_data_dictionary_by_tables                          *)
(***************************************************************************)
\* Two characters (or two words) that are the same letters, whatever their case.
CasePairs ==
    {<<"m", "M">>, <<"b", "B">>, <<"x", "X">>,
     <<"member_id", "Member_ID">>, <<"members", "Members">>}

SameLetter(c, d) == c = d \/ <<c, d>> \in CasePairs \/ <<d, c>> \in CasePairs

\* sub occurs in s as a substring, letter case ignored.
ContainsIgnoringCase(s, sub) ==
    \E off \in 0..(Len(s) - Len(sub)) :
        \A j \in 1..Len(sub) : SameLetter(s[off + j], sub[j])

NamesTable(s, names) == \E n \in 1..Len(names) : ContainsIgnoringCase(s, names[n])

\* Some str value of the row contains a requested table name.
KeepEntry(entry) ==
    \E i \in 1..Len(entry) : entry[i].isstr /\ NamesTable(entry[i].s, table_names)

\* C7: for a tabular dictionary the result is the list of exactly the rows
\* of which some str value contains, case ignored, a requested table name:
\* each such row once, in input order, and no other row; with no such row
\* the result is the empty list.
C7_TabularFilterExact ==
    (fpc = "done" /\ data_dict.type = "list")
      => filtered_data_dict = ListDoc(SelectSeq(data_dict.entries, KeepEntry))

C7_Witness ==
    /\ fpc = "done"
    /\ Len(data_dict.entries) = 2
    /\ ~KeepEntry(data_dict.entries[1])
    /\ Len(data_dict.entries[2]) = 2
    /\ \A i \in 1..2 : data_dict.entries[2][i] = StrValue(<<"x", "M", "b">>)
    /\ table_names = << <<"M", "B">> >>
    /\ filtered_data_dict.entries = <<data_dict.entries[2]>>

\* C8 (as claimed): the result has the variant and the tag of the input.
C8_SameVariantTag ==
    fpc = "done"
      => (filtered_data_dict.type = data_dict.type /\ filtered_data_dict.key = data_dict.key)

LineKept(line) == NamesTable(line, table_names)

\* C8 (amended): a tabular dictionary gives a list; a text dictionary (key
\* pdf_content) gives a dict with the one key filtered_pdf_content, whose
\* text is the kept lines joined with line breaks; the filter does not take
\* that result for a text dictionary: it returns it unchanged, unfiltered.
C8_VariantKeptTagRenamed ==
    fpc = "done"
      => /\ filtered_data_dict.type = data_dict.type
         /\ data_dict.type = "dict"
              => /\ filtered_data_dict.key = "filtered_pdf_content"
                 /\ filtered_data_dict.text = Join(SelectSeq(Split(data_dict.text), LineKept))
                 /\ \A names \in SampleTableNames :
                       filter_data_dictionary_by_tables(filtered_data_dict, names)
                          = filtered_data_dict

C8_Witness ==
    /\ fpc = "done"
    /\ data_dict = DictDoc("pdf_content", <<"m", "x", "b", "\n", "x", "M", "b">>)
    /\ table_names = << <<"m", "b">> >>
    /\ filtered_data_dict = DictDoc("filtered_pdf_content", <<"x", "M", "b">>)
    /\ filter_data_dictionary_by_tables(filtered_data_dict, << <<"b", "b">>, <<"m", "B">> >>)
          = filtered_data_dict

(***************************************************************************)
(* Properties of parse_mapping_result_to_structured_data                   *)
(***************************************************************************)
\* The reply is a direct-error object: a dict with an `error` key.
IsErrorObject(reply) == reply.type = "dict" /\ reply.error # ""

\* The reply holds a content string at the place the parser reads.
CarriesText(reply) ==
    \/ reply.type = "str"
    \/ reply.type = "dict" /\ reply.choices = "content"
    \/ reply.type = "dict" /\ reply.choices \in {"absent", "empty"}
          /\ reply.predictions = "content"

\* C9 (as claimed): for every reply that is not an upstream error object
\* the parser returns a result (a mapping list and the text), never an error.
C9_ParseTotal ==
    (ppc = "done" /\ ~IsErrorObject(mapping_result)) => parsed_mapping.kind = "result"

\* C10 (as claimed): every returned value carries the reply text.
C10_TextAlwaysCarried ==
    ppc = "done"
      => /\ parsed_mapping.kind = "result"
         /\ CarriesText(mapping_result) => parsed_mapping.full_content = mapping_result.text

\* C10 (amended): every returned value that holds a mapping list holds,
\* beside it, the content text exactly as it was taken from the envelope,
\* whatever the number of records; a reply with a content string always
\* gets such a value; an error value holds the error message and no text.
C10_ResultCarriesText ==
    ppc = "done"
      => /\ parsed_mapping.kind \in {"result", "error"}
         /\ parsed_mapping.kind = "result" => parsed_mapping.full_content = content
         /\ CarriesText(mapping_result)
              => /\ parsed_mapping.kind = "result"
                 /\ parsed_mapping.full_content = mapping_result.text
         /\ parsed_mapping.kind = "error"
              => /\ parsed_mapping.full_content = <<>>
                 /\ parsed_mapping.field_mappings = <<>>
                 /\ parsed_mapping.error # ""

C10_Witness ==
    /\ ppc = "done"
    /\ mapping_result.choices = "content"
    /\ mapping_result.text =
          <<" ", "TARGET_FIELD:", "claim_id", " ", "\n", "NOTE:", " ", "members">>
    /\ parsed_mapping.full_content = mapping_result.text
    /\ Len(parsed_mapping.field_mappings) = 1
    /\ parsed_mapping.field_mappings[1]["target_field"] = <<"claim_id">>

\* C11 (as claimed): a reply that carries an `error` key is never turned
\* into a mapping list: the parser answers it with an error value, so a
\* result, and a result with an empty mapping list above all, never comes
\* from a reply that carries an `error` key.
C11_ErrorKeySurfaced ==
    (ppc = "done" /\ IsErrorObject(mapping_result))
      => /\ parsed_mapping.kind = "error"
         /\ parsed_mapping.field_mappings = <<>>

\* The reply's first element of `choices` or `predictions` is what the
\* parser reads: the `error` key, if any, is not looked at.
HasEnvelope(reply) ==
    reply.type = "dict"
      /\ (reply.choices \notin {"absent", "empty"}
            \/ reply.predictions \notin {"absent", "empty"})

\* C11 (amended): a dict with an `error` key and no non-empty `choices` or
\* `predictions` list gives the error value with that message unchanged and
\* no mapping list, and only such a reply gives an upstream message back;
\* every result, with an empty mapping list or not, comes from another
\* reply.  A dict that has the `error` key beside a non-empty `choices` or
\* `predictions` list is parsed as a reply: its error is never returned.
C11_DirectErrorSurfaced ==
    ppc = "done"
      => /\ (IsErrorObject(mapping_result) /\ ~HasEnvelope(mapping_result))
              => parsed_mapping = ErrorValue(mapping_result.error)
         /\ parsed_mapping.kind = "result"
              => (~IsErrorObject(mapping_result) \/ HasEnvelope(mapping_result))
         /\ (IsErrorObject(mapping_result) /\ HasEnvelope(mapping_result))
              => parsed_mapping \in {ErrorValue(ParseErrorMessage),
                                     ResultValue(content, parsed_mapping.field_mappings)}
         /\ (parsed_mapping.kind = "error" /\ parsed_mapping.error \in UpstreamMessages)
              => (IsErrorObject(mapping_result) /\ ~HasEnvelope(mapping_result))

C11_Witness ==
    /\ ppc = "done"
    /\ mapping_result = Reply("dict", "empty", "absent", RateLimitExceeded, <<>>)
    /\ parsed_mapping = ErrorValue(RateLimitExceeded)

\* The lines the loop has already been through, out of Split(content).
Consumed == Len(Split(content)) - Len(lines)

\* C17 (as claimed): in the line loop, once a separator line (`---` or a
\* blank line) has been processed the accumulator is empty, whether or not
\* a record was emitted at that separator.
C17_SeparatorResets ==
    (ppc = "lines" /\ Consumed > 0 /\ IsSeparator(Strip(Split(content)[Consumed])))
      => current_field = EmptyDict

\* The three levels of the prompt's grammar (line 495).
ConfidenceLevels == {<<"High">>, <<"Medium">>, <<"Low">>}

\* C16 (as claimed): every record the parser emits that has a confidence
\* holds one of the three labels High, Medium, Low.
C16_ConfidenceLevels ==
    (ppc = "done" /\ parsed_mapping.kind = "result")
      => \A i \in 1..Len(parsed_mapping.field_mappings) :
            "confidence" \in DOMAIN parsed_mapping.field_mappings[i]
              => parsed_mapping.field_mappings[i].confidence \in ConfidenceLevels

\* The reply's lines cut into blocks at the `---` lines.
RECURSIVE BlocksFrom(_, _, _)
BlocksFrom(ls, i, cur) ==
    IF i > Len(ls) THEN <<cur>>
    ELSE IF ls[i] = <<"---">> THEN <<cur>> \o BlocksFrom(ls, i + 1, <<>>)
    ELSE BlocksFrom(ls, i + 1, Append(cur, ls[i]))

FieldKeys == {KeyTable[i][1] : i \in 1..Len(KeyTable)}
FieldOf(key) == KeyTable[CHOOSE i \in 1..Len(KeyTable) : KeyTable[i][1] = key][2]

\* A well-formed block: a `TARGET_FIELD:` line, then `KEY: value` lines, each
\* starting with its key, no recognised key twice.
WellFormedBlock(b) ==
    /\ b # <<>>
    /\ \A j \in 1..Len(b) : Len(b[j]) > 0 /\ b[j][1] # " "
    /\ b[1][1] = "TARGET_FIELD:"
    /\ \A j, k \in 1..Len(b) :
          (j # k /\ b[j][1] \in FieldKeys) => b[j][1] # b[k][1]

\* k >= 1 well-formed blocks separated by `---`, the last one closed or not.
WellFormedText(ls) ==
    LET bs == BlocksFrom(ls, 1, <<>>) IN
      /\ \A i \in 1..(Len(bs) - 1) : WellFormedBlock(bs[i])
      /\ bs[Len(bs)] = <<>> \/ WellFormedBlock(bs[Len(bs)])
      /\ WellFormedBlock(bs[1])

\* What a block says: each recognised key's field with the value written
\* after the key, trimmed.
RecordOf(b) ==
    LET keyed == {j \in 1..Len(b) : b[j][1] \in FieldKeys} IN
      [f \in {FieldOf(b[j][1]) : j \in keyed} |->
         Strip(Tail(b[CHOOSE j \in keyed : FieldOf(b[j][1]) = f]))]

ExpectedRecords(ls) ==
    LET bs == SelectSeq(BlocksFrom(ls, 1, <<>>), LAMBDA b : b # <<>>) IN
      [i \in 1..Len(bs) |-> RecordOf(bs[i])]

\* C12 (as claimed): a reply text of k well-formed blocks gives exactly k
\* records, in the order of the blocks, and every field of the i-th record
\* equals the value written on the i-th block's line for it; lines with an
\* unrecognised key change nothing.
C12_BlocksParsed ==
    (ppc = "done" /\ parsed_mapping.kind = "result" /\ WellFormedText(Split(content)))
      => parsed_mapping.field_mappings = ExpectedRecords(Split(content))

\* The same, for the blocks where no value holds its own line's key.
C12_BlocksParsedPlainValues ==
    (ppc = "done" /\ parsed_mapping.kind = "result" /\ WellFormedText(Split(content))
       /\ \A i \in 1..Len(Split(content)) :
             LET l == Split(content)[i] IN
               \A j \in 2..Len(l) : l[j] # l[1])
      => parsed_mapping.field_mappings = ExpectedRecords(Split(content))

(***************************************************************************)
(* Properties of create_excel_mapping_report                               *)
(***************************************************************************)
\* The data rows of the sheet that was sent: all rows but the headers.
DataRows == Tail(export_response.file)

Sent == export_response.status = 200

\* The columns, in their order: the record's key and the placeholder.
Columns ==
    << <<"target_field", <<"N/A">>>>,
       <<"target_type", <<"VARCHAR(255)">>>>,
       <<"target_desc", <<"No description">>>>,
       <<"source_table", <<"TBD">>>>,
       <<"source_column", <<"TBD">>>>,
       <<"transformation", <<"Direct mapping">>>>,
       <<"confidence", <<"Medium">>>>,
       <<"reason", <<"AI analysis required">>>> >>

\* C14: with a non-empty list of parsed records the sheet has exactly one
\* data row per record, in the list's order, each of eight cells in the
\* fixed column order; a cell holds the record's value for its column, or
\* the column's placeholder when the record has none; no row comes from
\* the layout's fields.
C14_OneRowPerMapping ==
    (Sent /\ parsed_mapping.field_mappings # <<>>)
      => /\ Len(DataRows) = Len(parsed_mapping.field_mappings)
         /\ \A i \in 1..Len(DataRows) :
              /\ Len(DataRows[i]) = 8
              /\ \A c \in 1..8 :
                   DataRows[i][c] =
                      IF Columns[c][1] \in DOMAIN parsed_mapping.field_mappings[i]
                      THEN parsed_mapping.field_mappings[i][Columns[c][1]]
                      ELSE Columns[c][2]

C14_Witness ==
    /\ Sent
    /\ Len(parsed_mapping.field_mappings) = 2
    /\ Len(output_layout) = 1
    /\ DataRows[1][4] = <<"members">>
    /\ DataRows[1][5] = <<"TBD">>
    /\ DataRows[2][1] = <<"claim_id">>

\* The name the fallback gives the i-th field of the layout.
FieldName(i) ==
    IF "Field" \in DOMAIN output_layout[i] THEN output_layout[i].Field
    ELSE <<"field_", ToString(i)>>

\* C13 (as claimed): with no parsed record and n fields in the layout the
\* sheet has exactly n data rows, in the layout's order, and in every row
\* the source table, source column, confidence and reason hold the
\* sentinels, whatever the reply text.
C13_FallbackSentinels ==
    (Sent /\ parsed_mapping.field_mappings = <<>>)
      => /\ Len(DataRows) = Len(output_layout)
         /\ \A i \in 1..Len(DataRows) :
              /\ DataRows[i][1] = FieldName(i)
              /\ DataRows[i][4] = <<"TBD">>
              /\ DataRows[i][5] = <<"TBD">>
              /\ DataRows[i][7] = <<"Medium">>
              /\ DataRows[i][8] =
                   <<"AI analysis required - please review the full content for detailed mapping logic">>

\* The requested tables the text names, letter case ignored.
TablesNamed(text) ==
    {n \in 1..Len(report_table_names) : ContainsIgnoringCase(text, report_table_names[n])}

\* C13 (amended): with no parsed record and n fields in the layout the sheet
\* has exactly n data rows, in the layout's order.  A row whose field name
\* does not occur in the reply text (letter case ignored) holds the
\* sentinels TBD, TBD, Medium and the manual-review text; a row whose field
\* name occurs in it holds the first requested table the text names (TBD if
\* none), the field name as source column, High, and the "Field identified"
\* text.
C13_FallbackRows ==
    (Sent /\ parsed_mapping.field_mappings = <<>>)
      => /\ Len(DataRows) = Len(output_layout)
         /\ \A i \in 1..Len(DataRows) :
              /\ DataRows[i][1] = FieldName(i)
              /\ IF ContainsIgnoringCase(parsed_mapping.full_content, FieldName(i))
                 THEN /\ DataRows[i][4] =
                           IF TablesNamed(parsed_mapping.full_content) = {} THEN <<"TBD">>
                           ELSE report_table_names[
                                  CHOOSE n \in TablesNamed(parsed_mapping.full_content) :
                                    \A k \in TablesNamed(parsed_mapping.full_content) : n <= k]
                      /\ DataRows[i][5] = FieldName(i)
                      /\ DataRows[i][7] = <<"High">>
                      /\ DataRows[i][8] =
                           <<"Field identified in AI analysis. Common healthcare field mapping for ">>
                             \o FieldName(i)
                             \o <<". Review full AI content for complete logic.">>
                 ELSE /\ DataRows[i][4] = <<"TBD">>
                      /\ DataRows[i][5] = <<"TBD">>
                      /\ DataRows[i][7] = <<"Medium">>
                      /\ DataRows[i][8] =
                           <<"AI analysis required - please review the full content for detailed mapping logic">>

C13_Witness ==
    /\ Sent
    /\ parsed_mapping.field_mappings = <<>>
    /\ Len(output_layout) = 2
    /\ DataRows[1][5] = <<"Member_ID">>
    /\ DataRows[1][4] = <<"Members">>
    /\ DataRows[1][7] = <<"High">>
    /\ DataRows[2][5] = <<"TBD">>
    /\ DataRows[2][7] = <<"Medium">>

(***************************************************************************)
(* Properties of generate_mapping under concurrency                        *)
(***************************************************************************)
\* What run r answers when no other request is being served.
AloneResponse(r) ==
    LET req == request[r]
        filtered == filter_data_dictionary_by_tables(req.data_dict_file, req.table_names)
        reply == ReplyTo(Prompt(req.layout, filtered, req.table_names))
    IN  RunOk(req, reply, ParsedFrom(reply))

\* C15 (as claimed): under every interleaving of the steps of two
\* generate_mapping runs, each run ends with the outcome it has when it
\* runs alone, also when both upload a file of the same name.
C15_RunsIndependent ==
    \A r \in Runs : run_pc[r] = "done" => run_response[r] = AloneResponse(r)

\* The same, for two runs whose uploads have different names.
C15_IndependentUnderDistinctNames ==
    request[1].filename # request[2].filename => C15_RunsIndependent

(***************************************************************************)
(* Specifications                                                          *)
(***************************************************************************)
\* The model client: any number of calls, one after the other.
Init == ClientInit /\ FilterQuiet /\ ParserQuiet /\ ExportQuiet /\ PipelineQuiet

Next == CallStart \/ Attempt \/ CallReturn

Spec == Init /\ [][Next]_vars

\* The loop body always runs to its end: a POST is bounded by its timeouts.
FairSpec == Spec /\ WF_vars(Attempt) /\ WF_vars(CallStart) /\ WF_vars(CallReturn)

\* The table filter, applied to every dictionary and list of names.
FilterSpecInit == FilterInit /\ ClientQuiet /\ ParserQuiet /\ ExportQuiet /\ PipelineQuiet

FilterSpecNext == FilterCall

FilterSpec == FilterSpecInit /\ [][FilterSpecNext]_vars

\* The reply parser, applied to every reply.
ParserSpecInit == ParserInit /\ ClientQuiet /\ FilterQuiet /\ ExportQuiet /\ PipelineQuiet

ParserSpecNext == ParseStart \/ ParseLine \/ ParseEnd

ParserSpec == ParserSpecInit /\ [][ParserSpecNext]_vars

\* The export route: the reply is parsed, then rendered.
ExportSpecInit == ExportInit /\ ClientQuiet /\ FilterQuiet /\ PipelineQuiet

ExportSpecNext ==
    \/ ExportRequest \/ ParseStart \/ ParseLine \/ ParseEnd \/ ExportParsed
    \/ RenderStart \/ RenderMappingRow \/ RenderLayoutRow \/ RenderSave
    \/ ExportRespond

ExportSpec == ExportSpecInit /\ [][ExportSpecNext]_vars

\* Two runs of generate_mapping, their steps interleaved in every way.
PipelineSpecInit ==
    PipelineInit /\ ClientQuiet /\ FilterQuiet /\ ParserQuiet /\ ExportQuiet

PipelineSpecNext ==
    \/ SaveUpload \/ ParseDictionary \/ FilterDictionary \/ BuildPrompt
    \/ CallModel \/ ParseReply \/ RemoveUpload

PipelineSpec == PipelineSpecInit /\ [][PipelineSpecNext]_vars

====
